---- MODULE Spec2Model ----
(***************************************************************************)
(* BinToCSV: the binary decoder (parsebin.cpp, parseBinFile), the record   *)
(* serializer (parsebin.cpp, writeCsv) and the batch driver                *)
(* (mainwindow.cpp, MainWindow::onParse).                                  *)
(*                                                                         *)
(* Representation.  A byte is a number in 0..255.  A uint32 is the tuple   *)
(* of its four base-256 digits, most significant first (TLC's integers are *)
(* 32-bit signed, so the value itself is never formed).  A character is    *)
(* its ASCII code; a std::string is a tuple of codes.  A float that went   *)
(* through the two-decimal rounding is the record [kind, sign, a, b]:      *)
(* kind "dec" is sign * a / 100, kind "raw" is a float of exponent >= 150  *)
(* (an integer, which the rounding leaves as it is) with biased exponent a *)
(* and mantissa b, kind "inf" and "nan" are the non-finite values.         *)
(***************************************************************************)
EXTENDS Integers, Sequences, FiniteSets, TLC

VARIABLES
    \* parseBinFile
    file,        \* the input file: [exists, seekable, bytes]
    pc,          \* position in parseBinFile
    pos,         \* file position of fp
    firstRead,   \* bool firstRead
    rows,        \* std::vector<Record> rows
    reads,       \* the fread calls made so far: <<[req, got], ...>>
    \* writeCsv
    rowsIn,      \* the caller's collection (const std::vector<Record>&)
    canCreate,   \* whether fopen(csvFilename, "w") succeeds
    wpc,         \* position in writeCsv
    sortedRows,  \* the local copy `rows` after std::sort
    uniqueRows,  \* std::vector<Record> uniqueRows
    wi,          \* number of uniqueRows already written
    csvLines,    \* the lines written to the CSV file, header first
    \* MainWindow::onParse
    binPaths,    \* the files of the list widget, in list order
    mergeToOne,  \* ui->radioMerge->isChecked()
    outFilename, \* what getSaveFileName returned (<<>> when cancelled)
    csvFails,    \* the set of CSV paths that cannot be created
    bpc,         \* position in onParse
    bi,          \* index of the next file of binPaths
    mergedRecords, \* std::vector<Record> mergedRecords
    parseCalls,  \* the parseBinFile calls made so far (indices into binPaths)
    csvCalls,    \* the writeCsv calls made so far: <<[path, rows], ...>>
    successList, \* QStringList successList
    dialogs      \* the message boxes shown so far

parseVars == <<file, pc, pos, firstRead, rows, reads>>
csvVars == <<rowsIn, canCreate, wpc, sortedRows, uniqueRows, wi, csvLines>>
batchVars == <<binPaths, mergeToOne, outFilename, csvFails, bpc, bi,
               mergedRecords, parseCalls, csvCalls, successList, dialogs>>
vars == <<parseVars, csvVars, batchVars>>

----------------------------------------------------------------------------
(* Bounds of the model *)

MaxGroups == 4      \* 16-word groups in a generated input file
MaxRecs == 3        \* records handed to writeCsv
MaxFiles == 2       \* files selected in the list widget

----------------------------------------------------------------------------
(* Program constants *)

PreambleLen == 192      \* 0xC0
FirstBlockSize == 132
BlockSize == 128
FirstIntCount == 33
IntCount == 32
GroupLen == 16
NumFloats == 13

----------------------------------------------------------------------------
(* Helpers *)

Min(a, b) == IF a < b THEN a ELSE b
Max(a, b) == IF a > b THEN a ELSE b

RECURSIVE Pow2(_)
Pow2(k) == IF k = 0 THEN 1 ELSE 2 * Pow2(k - 1)

RECURSIVE Flatten(_)
Flatten(ss) == IF ss = <<>> THEN <<>> ELSE Head(ss) \o Flatten(Tail(ss))

----------------------------------------------------------------------------
(* parsebin.cpp: the two field decoders *)

\* one digit of snprintf("%08X"): '0'..'9', 'A'..'F'
HexChar(n) == IF n < 10 THEN 48 + n ELSE 55 + n

\* snprintf(buf, "%08X", v) for the word v = <<b0, b1, b2, b3>>
ToHex(v) ==
    [i \in 1..8 |-> LET b == v[(i + 1) \div 2]
                    IN  HexChar(IF i % 2 = 1 THEN b \div 16 ELSE b % 16)]

\* the value of one hex character in parseHexAsFloatLittleEndian, -1 = throw
HexVal(c) ==
    IF c >= 48 /\ c <= 57 THEN c - 48
    ELSE IF c >= 65 /\ c <= 70 THEN c - 65 + 10
    ELSE IF c >= 97 /\ c <= 102 THEN c - 97 + 10
    ELSE -1

\* round(f * 100.0) / 100.0 for the float of sign s, biased exponent e and
\* mantissa m; round() rounds halfway cases away from zero
RoundTwo(s, e, m) ==
    IF e = 255 THEN [kind |-> IF m = 0 THEN "inf" ELSE "nan", sign |-> s, a |-> 0, b |-> 0]
    ELSE IF e >= 150 THEN [kind |-> "raw", sign |-> s, a |-> e, b |-> m]
    ELSE IF e = 0 THEN [kind |-> "dec", sign |-> s, a |-> 0, b |-> 0]
    ELSE LET n == 100 * (8388608 + m)      \* f * 100 = n / 2^k
             k == 150 - e
             h == IF k >= 32 THEN 0
                  ELSE IF k = 31 THEN (IF n >= Pow2(30) THEN 1 ELSE 0)
                  ELSE (n \div Pow2(k))
                       + (IF (n % Pow2(k)) >= Pow2(k - 1) THEN 1 ELSE 0)
         IN  [kind |-> "dec", sign |-> s, a |-> h, b |-> 0]

\* parseHexAsFloatLittleEndian: [ok |-> FALSE] stands for the throw
parseHexAsFloatLittleEndian(hex8) ==
    IF Len(hex8) < 8 THEN [ok |-> FALSE, val |-> 0]
    ELSE IF \E i \in 1..Len(hex8) : HexVal(hex8[i]) = -1 THEN [ok |-> FALSE, val |-> 0]
    ELSE LET n == Len(hex8)
             \* val <<= 4 keeps the last 8 digits; byte j of val, msb first
             byte(j) == 16 * HexVal(hex8[n - 8 + 2 * j - 1]) + HexVal(hex8[n - 8 + 2 * j])
             \* swapBigEndianToHost, msb first
             s0 == byte(4)
             s1 == byte(3)
             s2 == byte(2)
             s3 == byte(1)
         IN  [ok |-> TRUE,
              val |-> RoundTwo(s0 \div 128,
                               (s0 % 128) * 2 + (s1 \div 128),
                               (s1 % 128) * 65536 + s2 * 256 + s3)]

\* the lambda decToInt of parseDateTimeFromTwoHex, -1 = throw
decToInt(s, p) ==
    LET c1 == s[p + 1]
        c2 == s[p + 2]
    IN  IF c1 < 48 \/ c1 > 57 \/ c2 < 48 \/ c2 > 57 THEN -1
        ELSE (c1 - 48) * 10 + (c2 - 48)

\* operator<< with setw(2) and setfill('0'), for 0..99
TwoDigits(n) == <<48 + (n \div 10), 48 + (n % 10)>>

\* operator<< of the year, a number in 2000..2100
FourDigits(n) ==
    <<48 + (n \div 1000), 48 + ((n \div 100) % 10), 48 + ((n \div 10) % 10), 48 + (n % 10)>>

\* lines 94-113 of parseDateTimeFromTwoHex: the Record of a checked timestamp,
\* with its two derived strings ("2025/01/10", "13:30:45")
makeRecord(year, MM, DD, hh, mm, ss) ==
    [year |-> year, month |-> MM, day |-> DD,
     hour |-> hh, minute |-> mm, second |-> ss,
     dateStr |-> FourDigits(year) \o <<47>> \o TwoDigits(MM) \o <<47>> \o TwoDigits(DD),
     timeStr |-> TwoDigits(hh) \o <<58>> \o TwoDigits(mm) \o <<58>> \o TwoDigits(ss),
     floatValues |-> <<>>]

\* parseDateTimeFromTwoHex with the month check off by one (MM > 13)
parseDateTimeFromTwoHex_monthOffByOne(hex1, hex2) ==
    LET YY == decToInt(hex1, 0)
        MM == decToInt(hex1, 2)
        DD == decToInt(hex1, 4)
        hh == decToInt(hex1, 6)
        mm == decToInt(hex2, 0)
        ss == decToInt(hex2, 2)
        year == 2000 + YY
        fail == [ok |-> FALSE, rec |-> <<>>]
    IN  IF Len(hex1) < 8 \/ Len(hex2) < 8 THEN fail
        ELSE IF YY = -1 \/ MM = -1 \/ DD = -1 \/ hh = -1 \/ mm = -1 \/ ss = -1 THEN fail
        ELSE IF year < 2000 \/ year > 2100 THEN fail
        ELSE IF MM < 1 \/ MM > 13 THEN fail
        ELSE IF DD < 1 \/ DD > 31 THEN fail
        ELSE IF hh < 0 \/ hh > 23 THEN fail
        ELSE IF mm < 0 \/ mm > 59 THEN fail
        ELSE IF ss < 0 \/ ss > 59 THEN fail
        ELSE [ok |-> TRUE, rec |-> makeRecord(year, MM, DD, hh, mm, ss)]

\* parseDateTimeFromTwoHex: [ok |-> FALSE] stands for each of its throws
parseDateTimeFromTwoHex(hex1, hex2) ==
    LET YY == decToInt(hex1, 0)
        MM == decToInt(hex1, 2)
        DD == decToInt(hex1, 4)
        hh == decToInt(hex1, 6)
        mm == decToInt(hex2, 0)
        ss == decToInt(hex2, 2)
        year == 2000 + YY
        fail == [ok |-> FALSE, rec |-> <<>>]
    IN  IF Len(hex1) < 8 \/ Len(hex2) < 8 THEN fail
        ELSE IF YY = -1 \/ MM = -1 \/ DD = -1 \/ hh = -1 \/ mm = -1 \/ ss = -1 THEN fail
        ELSE IF year < 2000 \/ year > 2100 THEN fail
        ELSE IF MM < 1 \/ MM > 12 THEN fail
        ELSE IF DD < 1 \/ DD > 31 THEN fail
        ELSE IF hh < 0 \/ hh > 23 THEN fail
        ELSE IF mm < 0 \/ mm > 59 THEN fail
        ELSE IF ss < 0 \/ ss > 59 THEN fail
        ELSE [ok |-> TRUE, rec |-> makeRecord(year, MM, DD, hh, mm, ss)]

----------------------------------------------------------------------------
(* parsebin.cpp: parseBinFile *)

\* blockSize without the firstRead distinction
blockSize_always132(first) == FirstBlockSize

\* size_t blockSize = firstRead ? 132 : 128
blockSize(first) == IF first THEN FirstBlockSize ELSE BlockSize

\* size_t intCount = firstRead ? 33 : 32
intCount(first) == IF first THEN FirstIntCount ELSE IntCount

\* the uint32 values of one buffer, each from 4 bytes, most significant first
bufferValues(buffer, first) ==
    [i \in 1..intCount(first) |->
        <<buffer[4 * i - 3], buffer[4 * i - 2], buffer[4 * i - 1], buffer[4 * i]>>]

\* mainVals with value 0 dropped from every block
mainValsOf_dropAlways(values, first) == SubSeq(values, 2, Len(values))

\* mainVals: the first block loses its value 0
mainValsOf(values, first) ==
    IF first THEN SubSeq(values, 2, Len(values)) ELSE values

\* hexVals of one buffer
hexValsOf(buffer, first) ==
    LET mainVals == mainValsOf(bufferValues(buffer, first), first)
    IN  [i \in 1..Len(mainVals) |-> ToHex(mainVals[i])]

\* the body of the group loop for the 16 strings g:
\* "skip" is a continue, "throw" an exception that leaves the loop,
\* "rec" a rows.push_back(rec)
processGroup(g) ==
    LET group == Tail(g)                       \* group.erase(group.begin())
        skip == [kind |-> "skip", rec |-> <<>>]
    IN  IF Len(group) < 2 THEN skip
        ELSE LET t == parseDateTimeFromTwoHex(group[1], group[2])
             IN  IF ~t.ok THEN skip            \* catch(...) { continue; }
                 ELSE IF Len(group) < 15 THEN skip
                 ELSE LET fs == [k \in 1..(Len(group) - 2) |->
                                    parseHexAsFloatLittleEndian(group[k + 2])]
                      IN  IF \E k \in 1..Len(fs) : ~fs[k].ok
                          THEN [kind |-> "throw", rec |-> <<>>]
                          ELSE [kind |-> "rec",
                                rec |-> [t.rec EXCEPT !.floatValues =
                                            [k \in 1..Len(fs) |-> fs[k].val]]]

\* the group loop with a break where the code has continue
RECURSIVE groupLoop_breakOnSkip(_, _, _)
groupLoop_breakOnSkip(hexVals, i, acc) ==
    IF i + GroupLen > Len(hexVals) THEN [threw |-> FALSE, rows |-> acc]
    ELSE LET r == processGroup(SubSeq(hexVals, i + 1, i + GroupLen))
         IN  IF r.kind = "throw" THEN [threw |-> TRUE, rows |-> acc]
             ELSE IF r.kind = "skip" THEN [threw |-> FALSE, rows |-> acc]
             ELSE groupLoop_breakOnSkip(hexVals, i + GroupLen, Append(acc, r.rec))

\* for(size_t i=0; i+16 <= hexVals.size(); i+=16), from offset i with the
\* rows acc: the rows after the loop, or the throw
RECURSIVE groupLoop(_, _, _)
groupLoop(hexVals, i, acc) ==
    IF i + GroupLen > Len(hexVals) THEN [threw |-> FALSE, rows |-> acc]
    ELSE LET r == processGroup(SubSeq(hexVals, i + 1, i + GroupLen))
         IN  IF r.kind = "throw" THEN [threw |-> TRUE, rows |-> acc]
             ELSE IF r.kind = "skip" THEN groupLoop(hexVals, i + GroupLen, acc)
             ELSE groupLoop(hexVals, i + GroupLen, Append(acc, r.rec))

\* one full buffer: decode, regroup, append to the rows acc
processBlock(buffer, first, acc) == groupLoop(hexValsOf(buffer, first), 0, acc)

\* fread(buffer, 1, n, fp) at position p of a file of the bytes bs
freadCount(bs, p, n) == Min(n, Max(0, Len(bs) - p))

\* fopen fails
OpenFail ==
    /\ pc = "start"
    /\ ~file.exists
    /\ pc' = "threw"
    /\ UNCHANGED <<file, pos, firstRead, rows, reads>>

\* fopen succeeds
OpenOk ==
    /\ pc = "start"
    /\ file.exists
    /\ pc' = "opened"
    /\ UNCHANGED <<file, pos, firstRead, rows, reads>>

\* fseek(fp, 0xC0, SEEK_SET) fails: the stream cannot seek
SeekFail ==
    /\ pc = "opened"
    /\ ~file.seekable
    /\ pc' = "threw"
    /\ UNCHANGED <<file, pos, firstRead, rows, reads>>

\* fseek(fp, 0xC0, SEEK_SET) on a regular file succeeds whatever its length
SeekOk ==
    /\ pc = "opened"
    /\ file.seekable
    /\ pos' = PreambleLen
    /\ firstRead' = TRUE
    /\ pc' = "loop"
    /\ UNCHANGED <<file, rows, reads>>

\* one iteration whose fread comes back short: break
ReadShort ==
    /\ pc = "loop"
    /\ LET n == blockSize(firstRead)
           got == freadCount(file.bytes, pos, n)
       IN  /\ got < n
           /\ reads' = Append(reads, [req |-> n, got |-> got])
           /\ pos' = pos + got
    /\ pc' = "close"
    /\ UNCHANGED <<file, firstRead, rows>>

\* one iteration whose fread fills the buffer
ReadFull ==
    /\ pc = "loop"
    /\ LET n == blockSize(firstRead)
           got == freadCount(file.bytes, pos, n)
           buffer == SubSeq(file.bytes, pos + 1, pos + n)
           r == processBlock(buffer, firstRead, rows)
       IN  /\ got = n
           /\ reads' = Append(reads, [req |-> n, got |-> got])
           /\ pos' = pos + got
           /\ rows' = r.rows
           /\ pc' = IF r.threw THEN "threw" ELSE "loop"
    /\ firstRead' = FALSE
    /\ UNCHANGED file

\* fclose(fp); return rows
Return ==
    /\ pc = "close"
    /\ pc' = "returned"
    /\ UNCHANGED <<file, pos, firstRead, rows, reads>>

\* parseBinFile as a function of the file: what the caller gets
RECURSIVE readLoop(_, _, _, _)
readLoop(bs, p, first, acc) ==
    LET n == blockSize(first)
    IN  IF freadCount(bs, p, n) < n THEN [threw |-> FALSE, rows |-> acc]
        ELSE LET r == processBlock(SubSeq(bs, p + 1, p + n), first, acc)
             IN  IF r.threw THEN [threw |-> TRUE, rows |-> <<>>]
                 ELSE readLoop(bs, p + n, FALSE, r.rows)

parseBinFile(f) ==
    IF ~f.exists \/ ~f.seekable THEN [threw |-> TRUE, rows |-> <<>>]
    ELSE readLoop(f.bytes, PreambleLen, TRUE, <<>>)

----------------------------------------------------------------------------
(* parsebin.cpp: writeCsv (the branch built when _WIN32 is not defined) *)

\* the comparator without its day line
recordLess_noDay(a, b) ==
    IF a.year # b.year THEN a.year < b.year
    ELSE IF a.month # b.month THEN a.month < b.month
    ELSE IF a.hour # b.hour THEN a.hour < b.hour
    ELSE IF a.minute # b.minute THEN a.minute < b.minute
    ELSE a.second < b.second

\* the comparator handed to std::sort
recordLess(a, b) ==
    IF a.year # b.year THEN a.year < b.year
    ELSE IF a.month # b.month THEN a.month < b.month
    ELSE IF a.day # b.day THEN a.day < b.day
    ELSE IF a.hour # b.hour THEN a.hour < b.hour
    ELSE IF a.minute # b.minute THEN a.minute < b.minute
    ELSE a.second < b.second

\* what std::sort may leave: any arrangement of rs that is ordered by the
\* comparator (std::sort does not say where equivalent elements end up)
sortResults(rs) ==
    LET n == Len(rs)
        perms == {f \in [1..n -> 1..n] : \A i, j \in 1..n : i # j => f[i] # f[j]}
    IN  {[i \in 1..n |-> rs[f[i]]] : f \in
            {g \in perms : \A i, j \in 1..n :
                               i < j => ~recordLess(rs[g[j]], rs[g[i]])}}

\* the dedup condition comparing the time of day only
keepRecord_timeOnly(acc, r) ==
    \/ acc = <<>>
    \/ LET last == acc[Len(acc)]
       IN  r.hour # last.hour \/ r.minute # last.minute \/ r.second # last.second

\* the condition of the dedup loop: r starts a new timestamp after last
keepRecord(acc, r) ==
    \/ acc = <<>>                              \* !last
    \/ LET last == acc[Len(acc)]
       IN  \/ r.year # last.year \/ r.month # last.month \/ r.day # last.day
           \/ r.hour # last.hour \/ r.minute # last.minute \/ r.second # last.second

\* for(auto &r : rows) of the dedup, from element i with uniqueRows = acc
RECURSIVE dedupLoop(_, _, _)
dedupLoop(rs, i, acc) ==
    IF i > Len(rs) THEN acc
    ELSE dedupLoop(rs, i + 1, IF keepRecord(acc, rs[i]) THEN Append(acc, rs[i]) ELSE acc)

\* the swap one position too early: floatValues[10] and floatValues[11]
swapLastTwo_offByOne(r) ==
    IF Len(r.floatValues) = NumFloats
    THEN [r EXCEPT !.floatValues = [r.floatValues EXCEPT ![11] = r.floatValues[12],
                                                         ![12] = r.floatValues[11]]]
    ELSE r

\* if(r.floatValues.size() == 13) std::swap(r.floatValues[11], r.floatValues[12])
swapLastTwo(r) ==
    IF Len(r.floatValues) = NumFloats
    THEN [r EXCEPT !.floatValues = [r.floatValues EXCEPT ![12] = r.floatValues[13],
                                                         ![13] = r.floatValues[12]]]
    ELSE r

\* the text of one record: dateStr, timeStr and one column per float value
\* (a column holds the float that operator<< prints; its digits are not modelled)
csvLine(r) ==
    [kind |-> "data", dateStr |-> r.dateStr, timeStr |-> r.timeStr, cols |-> r.floatValues]

HeaderLine == [kind |-> "header", dateStr |-> <<>>, timeStr |-> <<>>, cols |-> <<>>]

\* std::vector<Record> rows = rowsIn; std::sort(...)
CsvSort ==
    /\ wpc = "start"
    /\ sortedRows' \in sortResults(rowsIn)
    /\ wpc' = "dedup"
    /\ UNCHANGED <<rowsIn, canCreate, uniqueRows, wi, csvLines>>

\* the dedup loop
CsvDedup ==
    /\ wpc = "dedup"
    /\ uniqueRows' = dedupLoop(sortedRows, 1, <<>>)
    /\ wpc' = "open"
    /\ UNCHANGED <<rowsIn, canCreate, sortedRows, wi, csvLines>>

\* fopen(csvFilename, "w") fails: throw
CsvOpenFail ==
    /\ wpc = "open"
    /\ ~canCreate
    /\ wpc' = "threw"
    /\ UNCHANGED <<rowsIn, canCreate, sortedRows, uniqueRows, wi, csvLines>>

\* fopen succeeds; the header line
CsvOpenOk ==
    /\ wpc = "open"
    /\ canCreate
    /\ csvLines' = <<HeaderLine>>
    /\ wi' = 0
    /\ wpc' = "write"
    /\ UNCHANGED <<rowsIn, canCreate, sortedRows, uniqueRows>>

\* one iteration of for(auto &r : uniqueRows): swap in place, print
CsvWriteRow ==
    /\ wpc = "write"
    /\ wi < Len(uniqueRows)
    /\ LET r == swapLastTwo(uniqueRows[wi + 1])
       IN  /\ uniqueRows' = [uniqueRows EXCEPT ![wi + 1] = r]
           /\ csvLines' = Append(csvLines, csvLine(r))
    /\ wi' = wi + 1
    /\ UNCHANGED <<rowsIn, canCreate, wpc, sortedRows>>

\* fclose(fp)
CsvClose ==
    /\ wpc = "write"
    /\ wi = Len(uniqueRows)
    /\ wpc' = "done"
    /\ UNCHANGED <<rowsIn, canCreate, sortedRows, uniqueRows, wi, csvLines>>

----------------------------------------------------------------------------
(* mainwindow.cpp: MainWindow::onParse *)

\* csvPath: the path of the bin file with its suffix replaced by ".csv"
csvPathOf(binPath) == <<binPath, "csv">>

\* count == 0: the warning, return
ParseNothing ==
    /\ bpc = "start"
    /\ Len(binPaths) = 0
    /\ dialogs' = Append(dialogs, "warning")
    /\ bpc' = "done"
    /\ UNCHANGED <<binPaths, mergeToOne, outFilename, csvFails, bi,
                   mergedRecords, parseCalls, csvCalls, successList>>

\* merge mode, the save dialog was cancelled: return
MergeCancel ==
    /\ bpc = "start"
    /\ Len(binPaths) > 0
    /\ mergeToOne
    /\ outFilename = <<>>
    /\ bpc' = "done"
    /\ UNCHANGED <<binPaths, mergeToOne, outFilename, csvFails, bi,
                   mergedRecords, parseCalls, csvCalls, successList, dialogs>>

\* merge mode, a file name was chosen
MergeBegin ==
    /\ bpc = "start"
    /\ Len(binPaths) > 0
    /\ mergeToOne
    /\ outFilename # <<>>
    /\ mergedRecords' = <<>>
    /\ bi' = 1
    /\ bpc' = "merge"
    /\ UNCHANGED <<binPaths, mergeToOne, outFilename, csvFails,
                   parseCalls, csvCalls, successList, dialogs>>

\* merge mode, one file decoded: its records go to the end of mergedRecords
MergeParseOk ==
    /\ bpc = "merge"
    /\ bi <= Len(binPaths)
    /\ LET r == parseBinFile(binPaths[bi])
       IN  /\ ~r.threw
           /\ mergedRecords' = mergedRecords \o r.rows
    /\ parseCalls' = Append(parseCalls, bi)
    /\ bi' = bi + 1
    /\ UNCHANGED <<binPaths, mergeToOne, outFilename, csvFails, bpc,
                   csvCalls, successList, dialogs>>

\* merge mode, parseBinFile threw: the error box, then the next file, as
\* the per-file loop does
MergeParseFail_continue ==
    /\ bpc = "merge"
    /\ bi <= Len(binPaths)
    /\ parseBinFile(binPaths[bi]).threw
    /\ parseCalls' = Append(parseCalls, bi)
    /\ dialogs' = Append(dialogs, "critical")
    /\ bi' = bi + 1
    /\ UNCHANGED <<binPaths, mergeToOne, outFilename, csvFails, bpc,
                   mergedRecords, csvCalls, successList>>

\* merge mode, parseBinFile threw: the error box, return
MergeParseFail ==
    /\ bpc = "merge"
    /\ bi <= Len(binPaths)
    /\ parseBinFile(binPaths[bi]).threw
    /\ parseCalls' = Append(parseCalls, bi)
    /\ dialogs' = Append(dialogs, "critical")
    /\ bpc' = "done"
    /\ UNCHANGED <<binPaths, mergeToOne, outFilename, csvFails, bi,
                   mergedRecords, csvCalls, successList>>

\* merge mode, after the loop: writeCsv(outFilename, mergedRecords) returns
MergeWriteOk ==
    /\ bpc = "merge"
    /\ bi > Len(binPaths)
    /\ outFilename \notin csvFails
    /\ csvCalls' = Append(csvCalls, [path |-> outFilename, rows |-> mergedRecords])
    /\ dialogs' = Append(dialogs, "information")
    /\ bpc' = "done"
    /\ UNCHANGED <<binPaths, mergeToOne, outFilename, csvFails, bi,
                   mergedRecords, parseCalls, successList>>

\* merge mode, after the loop: writeCsv throws
MergeWriteFail ==
    /\ bpc = "merge"
    /\ bi > Len(binPaths)
    /\ outFilename \in csvFails
    /\ csvCalls' = Append(csvCalls, [path |-> outFilename, rows |-> mergedRecords])
    /\ dialogs' = Append(dialogs, "critical")
    /\ bpc' = "done"
    /\ UNCHANGED <<binPaths, mergeToOne, outFilename, csvFails, bi,
                   mergedRecords, parseCalls, successList>>

\* per-file mode
SeparateBegin ==
    /\ bpc = "start"
    /\ Len(binPaths) > 0
    /\ ~mergeToOne
    /\ successList' = <<>>
    /\ bi' = 1
    /\ bpc' = "separate"
    /\ UNCHANGED <<binPaths, mergeToOne, outFilename, csvFails,
                   mergedRecords, parseCalls, csvCalls, dialogs>>

\* per-file mode, one file decoded and written
SeparateOk ==
    /\ bpc = "separate"
    /\ bi <= Len(binPaths)
    /\ LET r == parseBinFile(binPaths[bi])
           csvPath == csvPathOf(binPaths[bi].path)
       IN  /\ ~r.threw
           /\ csvPath \notin csvFails
           /\ csvCalls' = Append(csvCalls, [path |-> csvPath, rows |-> r.rows])
           /\ successList' = Append(successList, csvPath)
    /\ parseCalls' = Append(parseCalls, bi)
    /\ bi' = bi + 1
    /\ UNCHANGED <<binPaths, mergeToOne, outFilename, csvFails, bpc,
                   mergedRecords, dialogs>>

\* per-file mode, parseBinFile threw: the error box, next file
SeparateParseFail ==
    /\ bpc = "separate"
    /\ bi <= Len(binPaths)
    /\ parseBinFile(binPaths[bi]).threw
    /\ parseCalls' = Append(parseCalls, bi)
    /\ dialogs' = Append(dialogs, "critical")
    /\ bi' = bi + 1
    /\ UNCHANGED <<binPaths, mergeToOne, outFilename, csvFails, bpc,
                   mergedRecords, csvCalls, successList>>

\* per-file mode, writeCsv threw: the error box, next file
SeparateWriteFail ==
    /\ bpc = "separate"
    /\ bi <= Len(binPaths)
    /\ LET r == parseBinFile(binPaths[bi])
           csvPath == csvPathOf(binPaths[bi].path)
       IN  /\ ~r.threw
           /\ csvPath \in csvFails
           /\ csvCalls' = Append(csvCalls, [path |-> csvPath, rows |-> r.rows])
    /\ parseCalls' = Append(parseCalls, bi)
    /\ dialogs' = Append(dialogs, "critical")
    /\ bi' = bi + 1
    /\ UNCHANGED <<binPaths, mergeToOne, outFilename, csvFails, bpc,
                   mergedRecords, successList>>

\* per-file mode, after the loop: the list of what was written, if any
SeparateEnd ==
    /\ bpc = "separate"
    /\ bi > Len(binPaths)
    /\ dialogs' = IF successList # <<>> THEN Append(dialogs, "information") ELSE dialogs
    /\ bpc' = "done"
    /\ UNCHANGED <<binPaths, mergeToOne, outFilename, csvFails, bi,
                   mergedRecords, parseCalls, csvCalls, successList>>

----------------------------------------------------------------------------
(* Inputs *)

\* the 192 bytes that are skipped, and the word 0 of the first block
Preamble == [i \in 1..PreambleLen |-> 0]
HeaderWord == <<170, 85, 170, 85>>
MarkerWord == <<255, 0, 255, 0>>

\* the two timestamp words of a group, by kind of group
\*   "A"     25/01/10 13:30:45, letters in the four unused characters
\*   "B"     24/12/31 23:59:59
\*   "digit" the letter A in the year
\*   "month" month 13
\*   "sec"   second 60
GroupKinds == {"A", "B", "digit", "month", "sec"}

TsWords(kind) ==
    CASE kind = "A"     -> <<<<37, 1, 16, 19>>, <<48, 69, 171, 205>>>>
      [] kind = "B"     -> <<<<36, 18, 49, 35>>, <<89, 89, 0, 0>>>>
      [] kind = "digit" -> <<<<42, 1, 16, 19>>, <<48, 69, 0, 0>>>>
      [] kind = "month" -> <<<<37, 19, 16, 19>>, <<48, 69, 0, 0>>>>
      [] kind = "sec"   -> <<<<37, 1, 16, 19>>, <<48, 96, 0, 0>>>>

\* the k-th measurement word of a group, the float stored least significant
\* byte first: 0.125 and +infinity at the head of "A" and "B", and otherwise
\* 8, 9, .. 15, 16, 18, .. 24, negated in the groups of kind "B"
FloatWord(kind, k) ==
    IF kind = "A" /\ k = 1 THEN <<0, 0, 0, 62>>
    ELSE IF kind = "B" /\ k = 1 THEN <<0, 0, 128, 127>>
    ELSE <<0, 0, 16 * (k - 1), IF kind = "B" THEN 193 ELSE 65>>

\* the 64 bytes of one group
GroupBytes(kind) ==
    MarkerWord \o TsWords(kind)[1] \o TsWords(kind)[2]
        \o Flatten([k \in 1..NumFloats |-> FloatWord(kind, k)])

\* bytes after the last group
TailLens == {0, 1, 63}

\* a file of the groups ks followed by t more bytes
GroupFile(ks, t) ==
    [exists |-> TRUE, seekable |-> TRUE,
     bytes |-> Preamble \o HeaderWord \o Flatten([i \in 1..Len(ks) |-> GroupBytes(ks[i])])
                   \o [i \in 1..t |-> 7]]

\* files that end in the preamble or in the first block
ShortLens == {0, 100, 191, 192, 193, 323}
ShortFile(n) == [exists |-> TRUE, seekable |-> TRUE, bytes |-> [i \in 1..n |-> 0]]

MissingFile == [exists |-> FALSE, seekable |-> FALSE, bytes |-> <<>>]
PipeFile == [exists |-> TRUE, seekable |-> FALSE, bytes |-> GroupFile(<<"A", "B">>, 0).bytes]

InputFiles ==
    {GroupFile(ks, t) : ks \in UNION {[1..n -> GroupKinds] : n \in 0..MaxGroups}, t \in TailLens}
        \cup {ShortFile(n) : n \in ShortLens} \cup {MissingFile, PipeFile}

\* records as parseBinFile makes them, for writeCsv
CsvStamps == {<<2025, 1, 10, 13, 30, 45>>, <<2024, 12, 31, 23, 59, 59>>,
              <<2025, 1, 10, 13, 30, 44>>, <<2025, 1, 9, 23, 59, 59>>}
CsvTags == {0, 1}
CsvRecord(ts, tag) ==
    [makeRecord(ts[1], ts[2], ts[3], ts[4], ts[5], ts[6]) EXCEPT !.floatValues =
        [k \in 1..NumFloats |-> [kind |-> "dec", sign |-> 0, a |-> 100 * k + tag, b |-> 0]]]
CsvRecords == {CsvRecord(ts, tag) : ts \in CsvStamps, tag \in CsvTags}
CsvInputs == UNION {[1..n -> CsvRecords] : n \in 0..MaxRecs}

\* the files of the list widget
BatchFiles ==
    {[path |-> "a"] @@ GroupFile(<<"A", "B">>, 0),
     [path |-> "b"] @@ GroupFile(<<"B", "month", "A", "A">>, 1),
     [path |-> "c"] @@ ShortFile(100),
     [path |-> "d"] @@ MissingFile}
BatchLists == UNION {[1..n -> BatchFiles] : n \in 0..MaxFiles}
OutCsv == <<"out", "csv">>

----------------------------------------------------------------------------
(* Specifications *)

ParseIdle ==
    /\ file = MissingFile /\ pc = "idle" /\ pos = 0 /\ firstRead = TRUE
    /\ rows = <<>> /\ reads = <<>>

CsvIdle ==
    /\ rowsIn = <<>> /\ canCreate = TRUE /\ wpc = "idle" /\ sortedRows = <<>>
    /\ uniqueRows = <<>> /\ wi = 0 /\ csvLines = <<>>

BatchIdle ==
    /\ binPaths = <<>> /\ mergeToOne = FALSE /\ outFilename = <<>> /\ csvFails = {}
    /\ bpc = "idle" /\ bi = 1 /\ mergedRecords = <<>> /\ parseCalls = <<>>
    /\ csvCalls = <<>> /\ successList = <<>> /\ dialogs = <<>>

\* parseBinFile(binFilename) on one input file
Init ==
    /\ file \in InputFiles
    /\ pc = "start" /\ pos = 0 /\ firstRead = TRUE /\ rows = <<>> /\ reads = <<>>
    /\ CsvIdle /\ BatchIdle

Next ==
    \/ (OpenFail /\ UNCHANGED <<csvVars, batchVars>>)
    \/ (OpenOk /\ UNCHANGED <<csvVars, batchVars>>)
    \/ (SeekFail /\ UNCHANGED <<csvVars, batchVars>>)
    \/ (SeekOk /\ UNCHANGED <<csvVars, batchVars>>)
    \/ (ReadShort /\ UNCHANGED <<csvVars, batchVars>>)
    \/ (ReadFull /\ UNCHANGED <<csvVars, batchVars>>)
    \/ (Return /\ UNCHANGED <<csvVars, batchVars>>)

Spec == Init /\ [][Next]_vars

\* writeCsv(csvFilename, rowsIn) on one record sequence
InitCsv ==
    /\ rowsIn \in CsvInputs
    /\ canCreate \in BOOLEAN
    /\ wpc = "start" /\ sortedRows = <<>> /\ uniqueRows = <<>> /\ wi = 0 /\ csvLines = <<>>
    /\ ParseIdle /\ BatchIdle

NextCsv ==
    \/ (CsvSort /\ UNCHANGED <<parseVars, batchVars>>)
    \/ (CsvDedup /\ UNCHANGED <<parseVars, batchVars>>)
    \/ (CsvOpenFail /\ UNCHANGED <<parseVars, batchVars>>)
    \/ (CsvOpenOk /\ UNCHANGED <<parseVars, batchVars>>)
    \/ (CsvWriteRow /\ UNCHANGED <<parseVars, batchVars>>)
    \/ (CsvClose /\ UNCHANGED <<parseVars, batchVars>>)

SpecCsv == InitCsv /\ [][NextCsv]_vars

\* one click on the parse button
InitBatch ==
    /\ binPaths \in BatchLists
    /\ mergeToOne \in BOOLEAN
    /\ outFilename \in {<<>>, OutCsv}
    /\ csvFails \in SUBSET {OutCsv, csvPathOf("a")}
    /\ bpc = "start" /\ bi = 1 /\ mergedRecords = <<>> /\ parseCalls = <<>>
    /\ csvCalls = <<>> /\ successList = <<>> /\ dialogs = <<>>
    /\ ParseIdle /\ CsvIdle

NextBatch ==
    \/ (ParseNothing /\ UNCHANGED <<parseVars, csvVars>>)
    \/ (MergeCancel /\ UNCHANGED <<parseVars, csvVars>>)
    \/ (MergeBegin /\ UNCHANGED <<parseVars, csvVars>>)
    \/ (MergeParseOk /\ UNCHANGED <<parseVars, csvVars>>)
    \/ (MergeParseFail /\ UNCHANGED <<parseVars, csvVars>>)
    \/ (MergeWriteOk /\ UNCHANGED <<parseVars, csvVars>>)
    \/ (MergeWriteFail /\ UNCHANGED <<parseVars, csvVars>>)
    \/ (SeparateBegin /\ UNCHANGED <<parseVars, csvVars>>)
    \/ (SeparateOk /\ UNCHANGED <<parseVars, csvVars>>)
    \/ (SeparateParseFail /\ UNCHANGED <<parseVars, csvVars>>)
    \/ (SeparateWriteFail /\ UNCHANGED <<parseVars, csvVars>>)
    \/ (SeparateEnd /\ UNCHANGED <<parseVars, csvVars>>)

SpecBatch == InitBatch /\ [][NextBatch]_vars

----------------------------------------------------------------------------
(* What the file format says, read off the bytes of the file *)

\* the number of blocks the file holds in full after the preamble
NumCompleteBlocks(bs) ==
    IF Len(bs) < PreambleLen + FirstBlockSize THEN 0
    ELSE 1 + ((Len(bs) - PreambleLen - FirstBlockSize) \div BlockSize)

\* the words of the bytes bs[from + 1 .. to]
WordsOf(bs, from, to) ==
    [i \in 1..((to - from) \div 4) |->
        <<bs[from + 4 * i - 3], bs[from + 4 * i - 2], bs[from + 4 * i - 1], bs[from + 4 * i]>>]

\* the kept words of the first n blocks, concatenated: the first block
\* without its word 0, every later block in full
KeptWords(bs, n) ==
    IF n = 0 THEN <<>>
    ELSE WordsOf(bs, PreambleLen + 4, PreambleLen + FirstBlockSize + (n - 1) * BlockSize)

\* the j-th group of 16 of a word sequence
GroupOf(ws, j) == SubSeq(ws, GroupLen * (j - 1) + 1, GroupLen * j)

\* the two decimal digits held by the byte b, -1 when one is a letter
Bcd(b) == IF b \div 16 > 9 \/ b % 16 > 9 THEN -1 ELSE 10 * (b \div 16) + (b % 16)

\* the timestamp of a group: words 1 and 2 after the marker
TsFieldsOf(g) == <<Bcd(g[2][1]), Bcd(g[2][2]), Bcd(g[2][3]), Bcd(g[2][4]),
                   Bcd(g[3][1]), Bcd(g[3][2])>>

TsValid(g) ==
    LET t == TsFieldsOf(g)
    IN  /\ \A i \in 1..6 : t[i] # -1
        /\ t[2] \in 1..12 /\ t[3] \in 1..31 /\ t[4] \in 0..23
        /\ t[5] \in 0..59 /\ t[6] \in 0..59

\* the float stored least significant byte first in the word w, rounded
FloatOfWord(w) ==
    RoundTwo(w[4] \div 128, (w[4] % 128) * 2 + (w[3] \div 128),
             (w[3] % 128) * 65536 + w[2] * 256 + w[1])

\* the Record of a group with a valid timestamp
RecordOfGroup(g) ==
    LET t == TsFieldsOf(g)
    IN  [makeRecord(2000 + t[1], t[2], t[3], t[4], t[5], t[6]) EXCEPT !.floatValues =
            [k \in 1..NumFloats |-> FloatOfWord(g[k + 3])]]

\* the Records of the groups 1..n of ws whose timestamp is valid, in order
RECURSIVE ValidGroupRecords(_, _)
ValidGroupRecords(ws, n) ==
    IF n = 0 THEN <<>>
    ELSE LET before == ValidGroupRecords(ws, n - 1)
         IN  IF TsValid(GroupOf(ws, n)) THEN Append(before, RecordOfGroup(GroupOf(ws, n)))
             ELSE before

\* the groups of the complete blocks of the file, two to a block
FileWords == KeptWords(file.bytes, NumCompleteBlocks(file.bytes))
FileGroups == 2 * NumCompleteBlocks(file.bytes)

----------------------------------------------------------------------------
(* Claims about parseBinFile *)

\* C1: every Record of rows has its year in 2000..2100, month in 1..12, day
\* in 1..31, hour in 0..23, minute and second in 0..59 and exactly 13 float
\* values, at every point of the decode and in what is returned.
C1_RecordsWellFormed ==
    \A i \in 1..Len(rows) :
        /\ rows[i].year \in 2000..2100
        /\ rows[i].month \in 1..12
        /\ rows[i].day \in 1..31
        /\ rows[i].hour \in 0..23
        /\ rows[i].minute \in 0..59
        /\ rows[i].second \in 0..59
        /\ Len(rows[i].floatValues) = 13

\* a decode that returned records and discarded at least one complete group
C1_Witness ==
    /\ pc = "returned"
    /\ Len(rows) >= 2
    /\ Len(rows) < FileGroups

\* C2: a group whose timestamp does not parse is skipped alone: what is
\* returned is, in file order, one Record for each group with a valid
\* timestamp, among them the groups after a corrupt one.
C2_SkipsOnlyCorruptGroup ==
    pc = "returned" => rows = ValidGroupRecords(FileWords, FileGroups)

\* a corrupt group first in its block, a valid one after it in the same
\* block and a valid one in a later block, both returned
C2_Witness ==
    /\ pc = "returned"
    /\ FileGroups >= 4
    /\ ~TsValid(GroupOf(FileWords, 1))
    /\ TsValid(GroupOf(FileWords, 2))
    /\ TsValid(GroupOf(FileWords, 4))
    /\ Len(rows) >= 2
    /\ rows[1] = RecordOfGroup(GroupOf(FileWords, 2))
    /\ rows[Len(rows)] = RecordOfGroup(GroupOf(FileWords, 4))

\* C4 as claimed: a file that exists and is shorter than 192 bytes makes
\* parseBinFile throw, it never returns a record sequence.
C4_ShortFileThrows ==
    (file.exists /\ Len(file.bytes) < PreambleLen) => pc # "returned"

\* C5: the first fread asks for 132 bytes and every later one for 128; every
\* read but the last is full; the loop ends, without a throw, at the first
\* short read, and what is returned is the Records of the blocks read in
\* full, whatever bytes the incomplete last block holds.
C5_ShortReadEndsLoop ==
    /\ \A i \in 1..Len(reads) :
          /\ reads[i].req = IF i = 1 THEN 132 ELSE 128
          /\ (i < Len(reads) => reads[i].got = reads[i].req)
    /\ (pc = "loop" => \A i \in 1..Len(reads) : reads[i].got = reads[i].req)
    /\ (reads # <<>> /\ reads[Len(reads)].got < reads[Len(reads)].req
            => pc \in {"close", "returned"})
    /\ (pc \in {"close", "returned"} =>
          /\ reads # <<>>
          /\ reads[Len(reads)].got < reads[Len(reads)].req
          /\ Len(reads) - 1 = NumCompleteBlocks(file.bytes)
          /\ pos = Len(file.bytes) \/ (pos = PreambleLen /\ Len(file.bytes) < PreambleLen)
          /\ rows = ValidGroupRecords(KeptWords(file.bytes, Len(reads) - 1),
                                      2 * (Len(reads) - 1)))

\* a full block of two valid groups, then a short read of the 64 bytes of a
\* group that would be valid, which gives no Record
C5_Witness ==
    /\ pc = "returned"
    /\ Len(reads) = 2
    /\ reads[2].got >= 64
    /\ LET g == WordsOf(file.bytes, PreambleLen + FirstBlockSize,
                        PreambleLen + FirstBlockSize + 64)
       IN  TsValid(g)
    /\ Len(rows) = 2

\* the Records of all the groups of 16 of the word sequence ws, a trailing
\* partial group left out
GroupedRecords(ws) == ValidGroupRecords(ws, Len(ws) \div GroupLen)

\* C9: what is returned equals the Records of the groups of 16 taken over the
\* concatenation of the kept words of all complete blocks.
C9_GroupsOverConcatenation ==
    pc = "returned" => rows = GroupedRecords(FileWords)

\* at least two complete blocks, with Records from the second
C9_Witness ==
    /\ pc = "returned"
    /\ NumCompleteBlocks(file.bytes) >= 2
    /\ Len(rows) >= 3
    /\ Len(file.bytes) > PreambleLen + FirstBlockSize + BlockSize

----------------------------------------------------------------------------
(* Claims about writeCsv *)

\* the number written with the decimal digits cs
RECURSIVE NumberOf(_)
NumberOf(cs) ==
    IF cs = <<>> THEN 0
    ELSE 10 * NumberOf(SubSeq(cs, 1, Len(cs) - 1)) + (cs[Len(cs)] - 48)

\* the 6-tuple read back from the text of a data line
LineKey(l) ==
    <<NumberOf(SubSeq(l.dateStr, 1, 4)), NumberOf(SubSeq(l.dateStr, 6, 7)),
      NumberOf(SubSeq(l.dateStr, 9, 10)), NumberOf(SubSeq(l.timeStr, 1, 2)),
      NumberOf(SubSeq(l.timeStr, 4, 5)), NumberOf(SubSeq(l.timeStr, 7, 8))>>

RecordKey(r) == <<r.year, r.month, r.day, r.hour, r.minute, r.second>>

\* lexicographic order of 6-tuples
RECURSIVE TupleLess(_, _)
TupleLess(a, b) ==
    IF a = <<>> THEN FALSE
    ELSE IF Head(a) # Head(b) THEN Head(a) < Head(b)
    ELSE TupleLess(Tail(a), Tail(b))

\* the data lines written so far (csvLines without the header)
DataLines == IF csvLines = <<>> THEN <<>> ELSE Tail(csvLines)

\* the first record of rs with the 6-tuple k
FirstWithKey(rs, k) ==
    rs[CHOOSE i \in 1..Len(rs) :
          /\ RecordKey(rs[i]) = k
          /\ \A j \in 1..(i - 1) : RecordKey(rs[j]) # k]

\* C6: the data lines written are in non-decreasing order of
\* (year, month, day, hour, minute, second).
C6_LinesSorted ==
    \A i, j \in 1..Len(DataLines) :
        i < j => ~TupleLess(LineKey(DataLines[j]), LineKey(DataLines[i]))

\* three lines written from an input that was not in order
C6_Witness ==
    /\ wpc = "done"
    /\ Len(DataLines) >= 3
    /\ \E i \in 1..(Len(rowsIn) - 1) : recordLess(rowsIn[i + 1], rowsIn[i])

\* C7: once the file is written there is exactly one data line for each
\* 6-tuple of the input, and the line of a 6-tuple is that of the first
\* record with it in the sorted sequence.
C7_OneLinePerTimestamp ==
    wpc = "done" =>
        LET keysIn == {RecordKey(rowsIn[i]) : i \in 1..Len(rowsIn)}
        IN  /\ {LineKey(DataLines[i]) : i \in 1..Len(DataLines)} = keysIn
            /\ Len(DataLines) = Cardinality(keysIn)
            /\ \A i \in 1..Len(DataLines) :
                  LET r == FirstWithKey(sortedRows, LineKey(DataLines[i]))
                  IN  /\ DataLines[i].dateStr = r.dateStr
                      /\ DataLines[i].timeStr = r.timeStr
                      /\ SubSeq(DataLines[i].cols, 1, 11) = SubSeq(r.floatValues, 1, 11)

\* two records of one timestamp and different values, and another timestamp
C7_Witness ==
    /\ wpc = "done"
    /\ Len(DataLines) = 2
    /\ \E i, j \in 1..Len(rowsIn) :
          /\ i # j
          /\ RecordKey(rowsIn[i]) = RecordKey(rowsIn[j])
          /\ rowsIn[i] # rowsIn[j]

\* the columns of the i-th data line against the record it was written from
SwappedOnce(i) ==
    LET l == DataLines[i]
        r == FirstWithKey(sortedRows, LineKey(l))
    IN  /\ Len(l.cols) = 13
        /\ l.cols[12] = r.floatValues[13]
        /\ l.cols[13] = r.floatValues[12]
        /\ \A k \in 1..11 : l.cols[k] = r.floatValues[k]

\* C8: a row has f12 in its 12th value column, f11 in its 13th and f0..f10 in
\* the first 11, the two being exchanged once; and writeCsv never changes
\* the records of the caller's collection.
C8_SwapLastTwoColumns ==
    /\ [](\A i \in 1..Len(DataLines) : SwappedOnce(i))
    /\ [][rowsIn' = rowsIn]_vars

\* two rows written, the last two values of each being different
C8_Witness ==
    /\ wpc = "done"
    /\ Len(DataLines) >= 2
    /\ \A i \in 1..Len(DataLines) : DataLines[i].cols[12] # DataLines[i].cols[13]
    /\ Len(rowsIn) >= 2

----------------------------------------------------------------------------
(* Claims about MainWindow::onParse *)

\* the index of the first file of ps that parseBinFile throws on, 0 if none
FirstFailure(ps) ==
    IF \E i \in 1..Len(ps) : parseBinFile(ps[i]).threw
    THEN CHOOSE i \in 1..Len(ps) :
            /\ parseBinFile(ps[i]).threw
            /\ \A j \in 1..(i - 1) : ~parseBinFile(ps[j]).threw
    ELSE 0

\* the records of all the files of ps, in list order
AllRecords(ps) == Flatten([i \in 1..Len(ps) |-> parseBinFile(ps[i]).rows])

\* C10: the files are decoded one after the other in list order; in merge
\* mode the first failing decode ends the batch, and writeCsv is called only
\* after every file decoded, once, with the records of all files in list
\* order; in per-file mode every file is processed, failures or not.
C10_MergeAllOrNothing ==
    LET n == Len(binPaths)
        f == FirstFailure(binPaths)
    IN  /\ parseCalls = [i \in 1..Len(parseCalls) |-> i]
        /\ Len(parseCalls) <= n
        /\ (mergeToOne /\ csvCalls # <<>>) =>
              /\ f = 0
              /\ Len(parseCalls) = n
              /\ csvCalls = <<[path |-> outFilename, rows |-> AllRecords(binPaths)]>>
        /\ (mergeToOne /\ f # 0) => Len(parseCalls) <= f
        /\ (bpc = "done" /\ mergeToOne /\ n > 0 /\ outFilename # <<>>) =>
              IF f = 0 THEN Len(parseCalls) = n /\ Len(csvCalls) = 1
              ELSE Len(parseCalls) = f /\ csvCalls = <<>>
        /\ (bpc = "done" /\ ~mergeToOne) =>
              /\ Len(parseCalls) = n
              /\ Len(csvCalls) = Cardinality({i \in 1..n : ~parseBinFile(binPaths[i]).threw})

\* merge mode, two files, the first fails: the second is not decoded and
\* nothing is written
C10_Witness ==
    /\ bpc = "done"
    /\ mergeToOne
    /\ Len(binPaths) = 2
    /\ parseBinFile(binPaths[1]).threw
    /\ ~parseBinFile(binPaths[2]).threw
    /\ parseCalls = <<1>>
    /\ csvCalls = <<>>

====
